---- MODULE Spec2Model ----
(***************************************************************************)
(* JungAI archetype service (model/serve_api.py, model/lexicon.py).        *)
(*                                                                         *)
(* A Python str is modelled as a sequence of characters; a character is a  *)
(* one-character TLA+ string, and the three non-ASCII characters the code  *)
(* names are spelled "ENDASH" (U+2013), "EMDASH" (U+2014) and "RSQUO"      *)
(* (U+2019).  String constants of the source are kept as TLA+ strings and  *)
(* turned into character sequences by Chars.                               *)
(*                                                                         *)
(* A probability is an integer number of 1/100000 (Unit = 1.0); a value    *)
(* rounded to four decimals is an integer number of 1/10000.               *)
(***************************************************************************)
EXTENDS Integers, Sequences, FiniteSets, TLC

\* ------------------------------------------------------------------------
\* Characters and the str methods the code uses
\* ------------------------------------------------------------------------
UpperAlpha ==
  <<"A","B","C","D","E","F","G","H","I","J","K","L","M",
    "N","O","P","Q","R","S","T","U","V","W","X","Y","Z">>

LowerAlpha ==
  <<"a","b","c","d","e","f","g","h","i","j","k","l","m",
    "n","o","p","q","r","s","t","u","v","w","x","y","z">>

Digits == {"0","1","2","3","4","5","6","7","8","9"}

Range(f) == {f[i] : i \in DOMAIN f}

UpperChars == Range(UpperAlpha)

LowerChars == Range(LowerAlpha)

SpaceChars == {" ", "\t", "\n", "\r"}

ToLower == [c \in UpperChars |-> LowerAlpha[CHOOSE i \in 1..26 : UpperAlpha[i] = c]]

ToUpper == [c \in LowerChars |-> UpperAlpha[CHOOSE i \in 1..26 : LowerAlpha[i] = c]]

IsUpper(c) == c \in UpperChars

IsLower(c) == c \in LowerChars

IsDigit(c) == c \in Digits

\* \s of re (and the separators of str.split / str.strip)
IsSpace(c) == c \in SpaceChars

\* str.lower(), one character
LowerChar(c) == IF IsUpper(c) THEN ToLower[c] ELSE c

\* str.upper(), one character
UpperChar(c) == IF IsLower(c) THEN ToUpper[c] ELSE c

\* str.lower()
Lower(s) == [i \in 1..Len(s) |-> LowerChar(s[i])]

\* str.capitalize(): first character upper-cased, the rest lower-cased
Capitalize(s) ==
  [i \in 1..Len(s) |-> IF i = 1 THEN UpperChar(s[i]) ELSE LowerChar(s[i])]

\* re.sub("[...]", " ", s) for a class of characters
SubClass(s, class) ==
  [i \in 1..Len(s) |-> IF s[i] \in class THEN " " ELSE s[i]]

\* re.sub("[^...]", " ", s) for a class of characters
SubNotClass(s, class) ==
  [i \in 1..Len(s) |-> IF s[i] \in class THEN s[i] ELSE " "]

Indices(s) == [i \in 1..Len(s) |-> i]

\* re.sub(r"\s+", " ", s)
CollapseSpaces(s) ==
  LET Keep(i) == ~IsSpace(s[i]) \/ i = 1 \/ ~IsSpace(s[i-1])
      kept    == SelectSeq(Indices(s), Keep)
  IN  [j \in 1..Len(kept) |-> IF IsSpace(s[kept[j]]) THEN " " ELSE s[kept[j]]]

\* str.strip()
Strip(s) ==
  LET solid == {i \in 1..Len(s) : ~IsSpace(s[i])}
  IN  IF solid = {} THEN <<>>
      ELSE SubSeq(s, CHOOSE i \in solid : \A j \in solid : i <= j,
                     CHOOSE i \in solid : \A j \in solid : j <= i)

\* last index of the run of non-space characters that holds index i
RunEnd(s, i) ==
  CHOOSE j \in i..Len(s) :
    /\ \A k \in i..j : ~IsSpace(s[k])
    /\ (j = Len(s) \/ IsSpace(s[j+1]))

\* str.split() with no argument: the maximal runs of non-space characters
Split(s) ==
  LET Starts(i) == ~IsSpace(s[i]) /\ (i = 1 \/ IsSpace(s[i-1]))
      starts    == SelectSeq(Indices(s), Starts)
  IN  [j \in 1..Len(starts) |-> SubSeq(s, starts[j], RunEnd(s, starts[j]))]

RECURSIVE Join(_)
\* " ".join(toks)
Join(toks) ==
  IF Len(toks) = 0 THEN <<>>
  ELSE IF Len(toks) = 1 THEN toks[1]
  ELSE toks[1] \o <<" ">> \o Join(Tail(toks))

\* s[i:] starts with k
StartsWithAt(s, i, k) ==
  /\ i + Len(k) - 1 <= Len(s)
  /\ \A j \in 1..Len(k) : s[i + j - 1] = k[j]

RECURSIVE ReplaceFrom(_, _, _, _)
\* s[i:] with every occurrence of k replaced, from the next one on
ReplaceFrom(s, i, k, v) ==
  LET found == {j \in i..Len(s) : StartsWithAt(s, j, k)}
  IN  IF found = {} THEN SubSeq(s, i, Len(s))
      ELSE LET j == CHOOSE m \in found : \A n \in found : m <= n
           IN  SubSeq(s, i, j - 1) \o v \o ReplaceFrom(s, j + Len(k), k, v)

\* str.replace(k, v) for a non-empty k: every non-overlapping occurrence,
\* left to right
Replace(s, k, v) == ReplaceFrom(s, 1, k, v)

\* s[:n]
Prefix(s, n) == SubSeq(s, 1, IF Len(s) < n THEN Len(s) ELSE n)

\* ------------------------------------------------------------------------
\* String constants of the source and of the inputs, as character sequences
\* ------------------------------------------------------------------------
CharsOf ==
     ("break" :> <<"b","r","e","a","k">>)
  @@ ("break rules" :> <<"b","r","e","a","k"," ","r","u","l","e","s">>)
  @@ ("rule breaking" :> <<"r","u","l","e"," ","b","r","e","a","k","i","n","g">>)
  @@ ("rule-breaking" :> <<"r","u","l","e","-","b","r","e","a","k","i","n","g">>)
  @@ ("rebel" :> <<"r","e","b","e","l">>)
  @@ ("outlaw" :> <<"o","u","t","l","a","w">>)
  @@ ("defy" :> <<"d","e","f","y">>)
  @@ ("defiant" :> <<"d","e","f","i","a","n","t">>)
  @@ ("disrupt" :> <<"d","i","s","r","u","p","t">>)
  @@ ("nonconformist" :> <<"n","o","n","c","o","n","f","o","r","m","i","s","t">>)
  @@ ("unapologetic" :> <<"u","n","a","p","o","l","o","g","e","t","i","c">>)
  @@ ("maverick" :> <<"m","a","v","e","r","i","c","k">>)
  @@ ("against the grain" :> <<"a","g","a","i","n","s","t"," ","t","h","e"," ","g","r","a","i","n">>)
  @@ ("anarchy" :> <<"a","n","a","r","c","h","y">>)
  @@ ("riot" :> <<"r","i","o","t">>)
  @@ ("unbound" :> <<"u","n","b","o","u","n","d">>)
  @@ ("bold" :> <<"b","o","l","d">>)
  @@ ("independent" :> <<"i","n","d","e","p","e","n","d","e","n","t">>)
  @@ ("freedom" :> <<"f","r","e","e","d","o","m">>)
  @@ ("smash" :> <<"s","m","a","s","h">>)
  @@ ("refuse" :> <<"r","e","f","u","s","e">>)
  @@ ("resist" :> <<"r","e","s","i","s","t">>)
  @@ ("revolt" :> <<"r","e","v","o","l","t">>)
  @@ ("innovative" :> <<"i","n","n","o","v","a","t","i","v","e">>)
  @@ ("features" :> <<"f","e","a","t","u","r","e","s">>)
  @@ ("firepower" :> <<"f","i","r","e","p","o","w","e","r">>)
  @@ ("solutions" :> <<"s","o","l","u","t","i","o","n","s">>)
  @@ ("weapons" :> <<"w","e","a","p","o","n","s">>)
  @@ ("technology" :> <<"t","e","c","h","n","o","l","o","g","y">>)
  @@ ("anarchy-grade tech" :> <<"a","n","a","r","c","h","y","-","g","r","a","d","e"," ","t","e","c","h">>)
  @@ ("We " :> <<"W","e"," ">>)
  @@ (" the rules so you can " :> <<" ","t","h","e"," ","r","u","l","e","s"," ","s","o"," ","y","o","u"," ","c","a","n"," ">>)
  @@ ("." :> <<".">>)
  @@ ("No permission needed. " :> <<"N","o"," ","p","e","r","m","i","s","s","i","o","n"," ","n","e","e","d","e","d","."," ">>)
  @@ (" " :> <<" ">>)
  @@ (" limits." :> <<" ","l","i","m","i","t","s",".">>)
  @@ (" is for the ones who " :> <<" ","i","s"," ","f","o","r"," ","t","h","e"," ","o","n","e","s"," ","w","h","o"," ">>)
  @@ (" conformity." :> <<" ","c","o","n","f","o","r","m","i","t","y",".">>)
  @@ ("obliterates" :> <<"o","b","l","i","t","e","r","a","t","e","s">>)
  @@ ("wrecks" :> <<"w","r","e","c","k","s">>)
  @@ ("destroy" :> <<"d","e","s","t","r","o","y">>)
  @@ ("move free" :> <<"m","o","v","e"," ","f","r","e","e">>)
  @@ ("own your path" :> <<"o","w","n"," ","y","o","u","r"," ","p","a","t","h">>)
  @@ ("care" :> <<"c","a","r","e">>)
  @@ ("caring" :> <<"c","a","r","i","n","g">>)
  @@ ("nurture" :> <<"n","u","r","t","u","r","e">>)
  @@ ("nurturing" :> <<"n","u","r","t","u","r","i","n","g">>)
  @@ ("protect" :> <<"p","r","o","t","e","c","t">>)
  @@ ("protection" :> <<"p","r","o","t","e","c","t","i","o","n">>)
  @@ ("support" :> <<"s","u","p","p","o","r","t">>)
  @@ ("supportive" :> <<"s","u","p","p","o","r","t","i","v","e">>)
  @@ ("safe" :> <<"s","a","f","e">>)
  @@ ("safety" :> <<"s","a","f","e","t","y">>)
  @@ ("compassion" :> <<"c","o","m","p","a","s","s","i","o","n">>)
  @@ ("compassionate" :> <<"c","o","m","p","a","s","s","i","o","n","a","t","e">>)
  @@ ("empathy" :> <<"e","m","p","a","t","h","y">>)
  @@ ("gentle" :> <<"g","e","n","t","l","e">>)
  @@ ("warm" :> <<"w","a","r","m">>)
  @@ ("warmth" :> <<"w","a","r","m","t","h">>)
  @@ ("embrace" :> <<"e","m","b","r","a","c","e">>)
  @@ ("family" :> <<"f","a","m","i","l","y">>)
  @@ ("trust" :> <<"t","r","u","s","t">>)
  @@ ("wellbeing" :> <<"w","e","l","l","b","e","i","n","g">>)
  @@ ("well being" :> <<"w","e","l","l"," ","b","e","i","n","g">>)
  @@ ("well-being" :> <<"w","e","l","l","-","b","e","i","n","g">>)
  @@ ("shield" :> <<"s","h","i","e","l","d">>)
  @@ ("comfort" :> <<"c","o","m","f","o","r","t">>)
  @@ ("soothe" :> <<"s","o","o","t","h","e">>)
  @@ ("reassure" :> <<"r","e","a","s","s","u","r","e">>)
  @@ ("healing" :> <<"h","e","a","l","i","n","g">>)
  @@ ("kindness" :> <<"k","i","n","d","n","e","s","s">>)
  @@ ("help" :> <<"h","e","l","p">>)
  @@ ("tender" :> <<"t","e","n","d","e","r">>)
  @@ ("listen" :> <<"l","i","s","t","e","n">>)
  @@ ("care standards" :> <<"c","a","r","e"," ","s","t","a","n","d","a","r","d","s">>)
  @@ ("care tech" :> <<"c","a","r","e"," ","t","e","c","h">>)
  @@ (" is here to " :> <<" ","i","s"," ","h","e","r","e"," ","t","o"," ">>)
  @@ (" you\\u2014every step." :> <<" ","y","o","u","EMDASH","e","v","e","r","y"," ","s","t","e","p",".">>)
  @@ ("Because your " :> <<"B","e","c","a","u","s","e"," ","y","o","u","r"," ">>)
  @@ (" deserves gentle, proven care." :> <<" ","d","e","s","e","r","v","e","s"," ","g","e","n","t","l","e",","," ","p","r","o","v","e","n"," ","c","a","r","e",".">>)
  @@ ("peace of mind" :> <<"p","e","a","c","e"," ","o","f"," ","m","i","n","d">>)
  @@ ("explore" :> <<"e","x","p","l","o","r","e">>)
  @@ ("discover" :> <<"d","i","s","c","o","v","e","r">>)
  @@ ("adventure" :> <<"a","d","v","e","n","t","u","r","e">>)
  @@ ("wander" :> <<"w","a","n","d","e","r">>)
  @@ ("roam" :> <<"r","o","a","m">>)
  @@ ("journey" :> <<"j","o","u","r","n","e","y">>)
  @@ ("trail" :> <<"t","r","a","i","l">>)
  @@ ("frontier" :> <<"f","r","o","n","t","i","e","r">>)
  @@ ("off road" :> <<"o","f","f"," ","r","o","a","d">>)
  @@ ("off-road" :> <<"o","f","f","-","r","o","a","d">>)
  @@ ("beyond" :> <<"b","e","y","o","n","d">>)
  @@ ("horizon" :> <<"h","o","r","i","z","o","n">>)
  @@ ("wild" :> <<"w","i","l","d">>)
  @@ ("map" :> <<"m","a","p">>)
  @@ ("path" :> <<"p","a","t","h">>)
  @@ ("route" :> <<"r","o","u","t","e">>)
  @@ ("expedition" :> <<"e","x","p","e","d","i","t","i","o","n">>)
  @@ ("uncharted" :> <<"u","n","c","h","a","r","t","e","d">>)
  @@ ("out there" :> <<"o","u","t"," ","t","h","e","r","e">>)
  @@ ("find your own way" :> <<"f","i","n","d"," ","y","o","u","r"," ","o","w","n"," ","w","a","y">>)
  @@ ("trail tools" :> <<"t","r","a","i","l"," ","t","o","o","l","s">>)
  @@ ("navigation tech" :> <<"n","a","v","i","g","a","t","i","o","n"," ","t","e","c","h">>)
  @@ ("Go " :> <<"G","o"," ">>)
  @@ (" the map\\u2014" :> <<" ","t","h","e"," ","m","a","p","EMDASH">>)
  @@ (" equips your " :> <<" ","e","q","u","i","p","s"," ","y","o","u","r"," ">>)
  @@ ("Every path is a story. " :> <<"E","v","e","r","y"," ","p","a","t","h"," ","i","s"," ","a"," ","s","t","o","r","y","."," ">>)
  @@ (" gets you there." :> <<" ","g","e","t","s"," ","y","o","u"," ","t","h","e","r","e",".">>)
  @@ ("off" :> <<"o","f","f">>)
  @@ ("next route" :> <<"n","e","x","t"," ","r","o","u","t","e">>)
  @@ ("bold journey" :> <<"b","o","l","d"," ","j","o","u","r","n","e","y">>)
  @@ ("go" :> <<"g","o">>)
  @@ ("move" :> <<"m","o","v","e">>)
  @@ ("what matters" :> <<"w","h","a","t"," ","m","a","t","t","e","r","s">>)
  @@ ("Your brand" :> <<"Y","o","u","r"," ","b","r","a","n","d">>)
  @@ ("..." :> <<".",".",".">>)
  @@ ("http" :> <<"h","t","t","p">>)
  @@ ("careful development" :> <<"c","a","r","e","f","u","l"," ","d","e","v","e","l","o","p","m","e","n","t">>)
  @@ ("Well-being" :> <<"W","e","l","l","-","b","e","i","n","g">>)
  @@ ("Break rules!" :> <<"B","r","e","a","k"," ","r","u","l","e","s","!">>)
  @@ ("http://x.co/care" :> <<"h","t","t","p",":","/","/","x",".","c","o","/","c","a","r","e">>)
  @@ ("Acme" :> <<"A","c","m","e">>)
  @@ ("{verb}" :> <<"{","v","e","r","b","}">>)

\* the characters of a string constant
Chars(s) == CharsOf[s]

\* ------------------------------------------------------------------------
\* model/lexicon.py.  A template is kept as str.format parses it: literal
\* parts and named slots.
\* ------------------------------------------------------------------------
REBEL ==
  [ keywords |->
      <<"break", "break rules", "rule breaking", "rule-breaking", "rebel",
        "outlaw", "defy", "defiant", "disrupt", "nonconformist",
        "unapologetic", "maverick", "against the grain", "anarchy", "riot",
        "unbound", "bold", "independent", "freedom", "smash", "refuse",
        "resist", "revolt">>,
    replace |->
      <<<<"innovative", "rule-breaking">>,
        <<"features", "firepower">>,
        <<"solutions", "weapons">>,
        <<"technology", "anarchy-grade tech">>>>,
    templates |->
      <<<<[lit |-> "We "], [slot |-> "verb"], [lit |-> " the rules so you can "], [slot |-> "benefit"], [lit |-> "."]>>,
        <<[lit |-> "No permission needed. "], [slot |-> "brand"], [lit |-> " "], [slot |-> "verb2"], [lit |-> " limits."]>>,
        <<[slot |-> "brand"], [lit |-> " is for the ones who "], [slot |-> "verb3"], [lit |-> " conformity."]>>>>,
    verbs |-> <<"break", "defy", "smash">>,
    verbs2 |-> <<"obliterates", "wrecks">>,
    verbs3 |-> <<"refuse", "destroy">>,
    benefits |-> <<"move free", "own your path">> ]

CAREGIVER ==
  [ keywords |->
      <<"care", "caring", "nurture", "nurturing", "protect", "protection",
        "support", "supportive", "safe", "safety", "compassion",
        "compassionate", "empathy", "gentle", "warm", "warmth", "embrace",
        "family", "trust", "wellbeing", "well being", "well-being", "shield",
        "comfort", "soothe", "reassure", "healing", "kindness", "help",
        "tender", "listen">>,
    replace |->
      <<<<"features", "care standards">>,
        <<"technology", "care tech">>>>,
    templates |->
      <<<<[slot |-> "brand"], [lit |-> " is here to "], [slot |-> "verb"], [lit |-> " you\\u2014every step."]>>,
        <<[lit |-> "Because your "], [slot |-> "benefit"], [lit |-> " deserves gentle, proven care."]>>>>,
    verbs |-> <<"support", "protect">>,
    benefits |-> <<"family", "peace of mind">> ]

EXPLORER ==
  [ keywords |->
      <<"explore", "discover", "adventure", "freedom", "wander", "roam",
        "journey", "trail", "frontier", "off road", "off-road", "beyond",
        "horizon", "wild", "map", "path", "route", "expedition", "uncharted",
        "out there", "find your own way">>,
    replace |->
      <<<<"features", "trail tools">>,
        <<"technology", "navigation tech">>>>,
    templates |->
      <<<<[lit |-> "Go "], [slot |-> "verb"], [lit |-> " the map\\u2014"], [slot |-> "brand"], [lit |-> " equips your "], [slot |-> "benefit"], [lit |-> "."]>>,
        <<[lit |-> "Every path is a story. "], [slot |-> "brand"], [lit |-> " gets you there."]>>>>,
    verbs |-> <<"beyond", "off">>,
    benefits |-> <<"next route", "bold journey">> ]

\* ARCHETYPES = {"Rebel": REBEL, "Caregiver": CAREGIVER, "Explorer": EXPLORER}
Lexicon ==
  [ keys |-> <<"Rebel", "Caregiver", "Explorer">>,
    at   |-> [Rebel |-> REBEL, Caregiver |-> CAREGIVER, Explorer |-> EXPLORER] ]

\* ------------------------------------------------------------------------
\* Program constants
\* ------------------------------------------------------------------------
\* strong = lex_hits[lex_label] >= 2
StrongHits == 2

\* margin = lex_hits[lex_label] >= lex_hits.get(top, 0) + 2
MarginHits == 2

\* lowc = conf < 0.55
LowConfidence == 55000

\* 0.52 in round(0.52 + 0.48 * scores.get(top, 0.0), 4)
BlendBase == 52000

\* 0.48 of the same expression, in hundredths
BlendWeight == 48

\* [...][:10]
MissingLimit == 10

\* sorted(...)[:3]
TopN == 3

\* t[:120]
RewriteLimit == 120

\* ------------------------------------------------------------------------
\* dict helpers.  A dict is a function; where the code relies on a dict's
\* insertion order the keys are kept beside it as a sequence.
\* ------------------------------------------------------------------------
EmptyDict == [k \in {} |-> k]

\* d.get(k, default)
Get(d, k, default) == IF k \in DOMAIN d THEN d[k] ELSE default

\* max(keys, key=f.get) taking the last key of greatest f
MaxLast(keys, f) ==
  keys[CHOOSE i \in 1..Len(keys) :
         /\ \A j \in 1..Len(keys) : f[keys[j]] <= f[keys[i]]
         /\ \A j \in (i+1)..Len(keys) : f[keys[j]] < f[keys[i]]]

\* max(keys, key=f.get): the first key, in iteration order, of greatest f
MaxFirst(keys, f) ==
  keys[CHOOSE i \in 1..Len(keys) :
         /\ \A j \in 1..Len(keys) : f[keys[j]] <= f[keys[i]]
         /\ \A j \in 1..(i-1) : f[keys[j]] < f[keys[i]]]

\* round(n/d, 4) for the exact value n/d in 1/100000: the nearest multiple
\* of 10, an exact tie going to the even neighbour
Round4(n, d) ==
  LET q == n \div (10 * d)
      r == n % (10 * d)
  IN  IF 2 * r < 10 * d THEN 10 * q
      ELSE IF 2 * r > 10 * d THEN 10 * (q + 1)
      ELSE IF q % 2 = 0 THEN 10 * q ELSE 10 * (q + 1)

\* ------------------------------------------------------------------------
\* Helpers of serve_api.py
\* ------------------------------------------------------------------------
RECURSIVE SubUrlsFrom(_, _)
\* s[i:] with every match of http\S+ blanked, from the next one on
SubUrlsFrom(s, i) ==
  LET found == {j \in i..Len(s) : /\ StartsWithAt(s, j, Chars("http"))
                                  /\ j + 4 <= Len(s)
                                  /\ ~IsSpace(s[j + 4])}
  IN  IF found = {} THEN SubSeq(s, i, Len(s))
      ELSE LET j == CHOOSE m \in found : \A n \in found : m <= n
           IN  SubSeq(s, i, j - 1) \o <<" ">>
                 \o SubUrlsFrom(s, RunEnd(s, j + 4) + 1)

\* re.sub(r"http\S+", " ", s)
SubUrls(s) == SubUrlsFrom(s, 1)

\* the characters [^A-Za-z0-9\s\-RSQUO'RSQUO] keeps
DisplayChars ==
  UpperChars \cup LowerChars \cup Digits \cup SpaceChars \cup {"-", "RSQUO", "'"}

normalize_text(s) ==
  Strip(CollapseSpaces(SubNotClass(SubUrls(s), DisplayChars)))

\* the class [-ENDASH EMDASH _/]
DashChars == {"-", "ENDASH", "EMDASH", "_", "/"}

\* the characters [^a-z0-9\s] keeps
MatchChars == LowerChars \cup Digits \cup SpaceChars

norm_for_match(s) ==
  Strip(CollapseSpaces(SubNotClass(SubClass(Lower(s), DashChars), MatchChars)))

\* _ngram_set whose bigrams stop one short: range(len(toks)-2)
ngram_set_short(text) ==
  LET toks == Split(text)
      n    == Len(toks)
  IN  Range(toks)
        \cup {Join(SubSeq(toks, i, i + 1)) : i \in 1..(n - 2)}
        \cup {Join(SubSeq(toks, i, i + 2)) : i \in 1..(n - 2)}

ngram_set(text) ==
  LET toks == Split(text)
      n    == Len(toks)
  IN  Range(toks)
        \cup {Join(SubSeq(toks, i, i + 1)) : i \in 1..(n - 1)}
        \cup {Join(SubSeq(toks, i, i + 2)) : i \in 1..(n - 2)}

\* _norm_for_match of every string constant, computed once
NormOfConstant == [s \in DOMAIN CharsOf |-> norm_for_match(CharsOf[s])]

\* hits of one archetype: its keywords whose normal form is an n-gram
KeywordHits(lex, grams) ==
  LET Hit(kw) == NormOfConstant[kw] \in grams
      hits    == SelectSeq(Get(lex, "keywords", <<>>), Hit)
  IN  [i \in 1..Len(hits) |-> Lower(Chars(hits[i]))]

analyze_patterns_all(text, arch) ==
  LET grams == ngram_set(norm_for_match(text))
  IN  [name \in Range(arch.keys) |-> KeywordHits(arch.at[name], grams)]

RECURSIVE ApplyReplace(_, _)
\* for k, v in lex.get("replace", {}).items(): text = text.replace(k, v)
\*     .replace(k.capitalize(), v.capitalize())
ApplyReplace(text, pairs) ==
  IF pairs = <<>> THEN text
  ELSE LET k == Chars(pairs[1][1])
           v == Chars(pairs[1][2])
       IN  ApplyReplace(
             Replace(Replace(text, k, v), Capitalize(k), Capitalize(v)),
             Tail(pairs))

\* the cut taken from the limit on, not only beyond it
TruncatedInclusive(t) ==
  IF Len(t) >= RewriteLimit THEN Prefix(t, RewriteLimit) \o Chars("...") ELSE t

\* (t[:120] + "...") if len(t) > 120 else t
Truncated(t) ==
  IF Len(t) > RewriteLimit THEN Prefix(t, RewriteLimit) \o Chars("...") ELSE t

\* pick with its condition inverted: the default whenever a list is there
pickInverted(lex, key, default) ==
  LET arr == Get(lex, key, <<>>)
  IN  IF arr # <<>> THEN {Chars(default)} ELSE {}

\* pick(key, default): the values random.choice can return
pick(lex, key, default) ==
  LET arr == Get(lex, key, <<>>)
  IN  IF arr # <<>> THEN {Chars(arr[i]) : i \in 1..Len(arr)}
      ELSE {Chars(default)}

RECURSIVE format(_, _)
\* t.format(**args) for a template of literal parts and named slots
format(t, args) ==
  IF t = <<>> THEN <<>>
  ELSE (IF "slot" \in DOMAIN t[1] THEN args[t[1].slot] ELSE Chars(t[1].lit))
         \o format(Tail(t), args)

\* every value rewrite(text, target, brand) can return
rewrite(text, target, brand, arch) ==
  LET lex       == Get(arch.at, target, EmptyDict)
      replaced  == ApplyReplace(text, Get(lex, "replace", <<>>))
      templates == Get(lex, "templates", <<>>)
  IN  IF templates = <<>> THEN {Truncated(normalize_text(replaced))}
      ELSE {format(templates[i],
                   [brand |-> brand, verb |-> v1, verb2 |-> v2,
                    verb3 |-> v3, benefit |-> b]) :
              i \in 1..Len(templates),
              v1 \in pick(lex, "verbs", "support"),
              v2 \in pick(lex, "verbs2", "go"),
              v3 \in pick(lex, "verbs3", "move"),
              b \in pick(lex, "benefits", "what matters")}

\* ------------------------------------------------------------------------
\* Inputs
\* ------------------------------------------------------------------------
\* most fragments a request text is made of
MaxWords == 2

\* most requests in flight
NumReq == 2

Req == 1..NumReq

Fragments ==
  <<"careful development", "Well-being", "well being", "care", "freedom",
    "Break rules!", "off-road", "http://x.co/care">>

RECURSIVE JoinFragments(_)
JoinFragments(fs) ==
  IF Len(fs) = 0 THEN <<>>
  ELSE IF Len(fs) = 1 THEN Chars(fs[1])
  ELSE Chars(fs[1]) \o <<" ">> \o JoinFragments(Tail(fs))

\* request texts: up to n fragments, separated by single spaces
TextsUpTo(n) ==
  UNION {{JoinFragments(fs) : fs \in [1..k -> Range(Fragments)]} : k \in 0..n}

\* a text of n characters: words of six letters, one exclamation mark
LongText(n) ==
  [i \in 1..n |-> IF i = 3 THEN "!" ELSE IF i % 7 = 0 THEN " " ELSE "x"]

\* texts at and just over the length rewrite cuts at
LongTexts == {LongText(RewriteLimit), LongText(RewriteLimit + 1)}

Texts == TextsUpTo(MaxWords) \cup LongTexts

\* texts that are exactly one declared keyword, for the matcher on its own
KeywordTexts ==
  UNION {{Chars(Lexicon.at[a].keywords[i]) :
            i \in 1..Len(Lexicon.at[a].keywords)} : a \in Range(Lexicon.keys)}

Targets == {"Rebel", "Caregiver", "Explorer", "Sage"}

Brands == {Chars("Acme"), Chars("{verb}")}

\* what the module-level loop over MODEL_PATHS can leave in `model`:
\* nothing, or a fitted pipeline with its sorted classes_
Models ==
  { [loaded |-> FALSE, classes_ |-> <<>>],
    [loaded |-> TRUE,  classes_ |-> <<>>],
    [loaded |-> TRUE,  classes_ |-> <<"Caregiver", "Rebel">>],
    [loaded |-> TRUE,  classes_ |-> <<"Caregiver", "Explorer", "Rebel">>],
    [loaded |-> TRUE,  classes_ |-> <<"Caregiver", "Explorer", "Rebel", "Sage">>] }

\* rows predict_proba can return, in classes_ order (a shorter classes_
\* takes a prefix); no value is an exact tie of round(., 4)
Distributions ==
  { <<35000, 25000, 40000, 0>>,
    <<20000, 10000, 70000, 0>>,
    <<40000, 40000, 20000, 0>>,
    <<30001, 30003, 39996, 0>>,
    <<54996, 25004, 20000, 0>>,
    <<0, 0, 100000, 0>>,
    <<60000, 15000, 25000, 0>>,
    <<10000, 10000, 10000, 70000>> }

\* ------------------------------------------------------------------------
\* State
\* ------------------------------------------------------------------------
VARIABLES
  model,       \* the module global `model`
  ARCHETYPES,  \* the module global ARCHETYPES of lexicon.py
  pc,          \* per request: where the call stands
  op,          \* per request: "classify", "rewrite" or "analyze"
  inp,         \* per request: the arguments of the call
  txt,         \* classify's locals, per request
  probs,
  found_all,
  top,
  conf,
  found_top,
  missing,
  ex,
  predicts,    \* per request: calls of model.predict_proba
  out          \* per request: what the call returned or raised

vars ==
  <<model, ARCHETYPES, pc, op, inp, txt, probs, found_all, top, conf,
    found_top, missing, ex, predicts, out>>

locals == <<txt, probs, found_all, top, conf, found_top, missing, ex>>

NoArgs == [text |-> <<>>, target |-> "", brand |-> <<>>]

NoOut == [kind |-> "none"]

Init ==
  /\ model \in Models
  /\ ARCHETYPES = Lexicon
  /\ pc = [r \in Req |-> "idle"]
  /\ op = [r \in Req |-> "none"]
  /\ inp = [r \in Req |-> NoArgs]
  /\ txt = [r \in Req |-> <<>>]
  /\ probs = [r \in Req |-> <<>>]
  /\ found_all = [r \in Req |-> EmptyDict]
  /\ top = [r \in Req |-> ""]
  /\ conf = [r \in Req |-> 0]
  /\ found_top = [r \in Req |-> <<>>]
  /\ missing = [r \in Req |-> <<>>]
  /\ ex = [r \in Req |-> <<>>]
  /\ predicts = [r \in Req |-> 0]
  /\ out = [r \in Req |-> NoOut]

\* scores = {labels[i]: float(probs[i]) for i in range(len(labels))}
Scores(labels, p) ==
  [l \in Range(labels) |-> p[CHOOSE i \in 1..Len(labels) : labels[i] = l]]

RECURSIVE SortedAscReversed(_, _)
\* sorted(scores.items(), key=lambda kv: kv[1])[::-1]: equal scores come
\* out in reverse label order
SortedAscReversed(labels, scores) ==
  IF labels = <<>> THEN <<>>
  ELSE LET first    == MaxLast(labels, scores)
           Other(l) == l # first
       IN  <<first>> \o SortedAscReversed(SelectSeq(labels, Other), scores)

\* sorted(scores.items(), key=lambda kv: kv[1], reverse=True): a stable
\* sort, so equal scores keep the order of labels
RECURSIVE SortedDesc(_, _)
SortedDesc(labels, scores) ==
  IF labels = <<>> THEN <<>>
  ELSE LET first    == MaxFirst(labels, scores)
           Other(l) == l # first
       IN  <<first>> \o SortedDesc(SelectSeq(labels, Other), scores)

\* scores of the response: the first three of the sorted items, rounded
Top3(labels, scores) ==
  LET items == Prefix(SortedDesc(labels, scores), TopN)
  IN  [i \in 1..Len(items) |-> <<items[i], Round4(scores[items[i]], 1)>>]

\* ------------------------------------------------------------------------
\* POST /classify, statement by statement
\* ------------------------------------------------------------------------
\* a request arrives; `if model is None: return {"error": ...}`
ClassifyEnter(r, texts) ==
  /\ pc[r] = "idle"
  /\ \E t \in texts : inp' = [inp EXCEPT ![r].text = t]
  /\ op' = [op EXCEPT ![r] = "classify"]
  /\ IF ~model.loaded
       THEN /\ pc' = [pc EXCEPT ![r] = "done"]
            /\ out' = [out EXCEPT ![r] =
                         [kind |-> "error", error |-> "Model not trained"]]
       ELSE /\ pc' = [pc EXCEPT ![r] = "normalize"]
            /\ out' = out
  /\ UNCHANGED <<model, ARCHETYPES, locals, predicts>>

\* raw_text = inp.text or ""; txt = normalize_text(raw_text)
ClassifyNormalize(r) ==
  /\ pc[r] = "normalize"
  /\ txt' = [txt EXCEPT ![r] = normalize_text(inp[r].text)]
  /\ pc' = [pc EXCEPT ![r] = "predict"]
  /\ UNCHANGED <<model, ARCHETYPES, op, inp, probs, found_all, top, conf,
                 found_top, missing, ex, predicts, out>>

\* labels = list(model.classes_); probs = model.predict_proba([txt])[0]
ClassifyPredict(r, dists) ==
  /\ pc[r] = "predict"
  /\ \E d \in dists :
       probs' = [probs EXCEPT ![r] = Prefix(d, Len(model.classes_))]
  /\ predicts' = [predicts EXCEPT ![r] = @ + 1]
  /\ pc' = [pc EXCEPT ![r] = "match"]
  /\ UNCHANGED <<model, ARCHETYPES, op, inp, txt, found_all, top, conf,
                 found_top, missing, ex, out>>

\* ClassifyMatch keeping its result in one place for all requests, as a
\* module-level cache would
ClassifyMatchShared(r) ==
  /\ pc[r] = "match"
  /\ found_all' = [q \in Req |-> analyze_patterns_all(txt[r], ARCHETYPES)]
  /\ pc' = [pc EXCEPT ![r] = "top"]
  /\ UNCHANGED <<model, ARCHETYPES, op, inp, txt, probs, top, conf,
                 found_top, missing, ex, predicts, out>>

\* found_all = analyze_patterns_all(txt)
ClassifyMatch(r) ==
  /\ pc[r] = "match"
  /\ found_all' = [found_all EXCEPT ![r] = analyze_patterns_all(txt[r], ARCHETYPES)]
  /\ pc' = [pc EXCEPT ![r] = "top"]
  /\ UNCHANGED <<model, ARCHETYPES, op, inp, txt, probs, top, conf,
                 found_top, missing, ex, predicts, out>>

\* ClassifyTop that answers an empty distribution from the lexicon alone
ClassifyTopFallback(r) ==
  /\ pc[r] = "top"
  /\ LET labels   == model.classes_
         scores   == Scores(labels, probs[r])
         lex_hits == [k \in DOMAIN found_all[r] |-> Len(found_all[r][k])]
     IN  IF labels = <<>>
           THEN /\ top' = [top EXCEPT ![r] = MaxFirst(ARCHETYPES.keys, lex_hits)]
                /\ conf' = [conf EXCEPT ![r] = 0]
           ELSE /\ top' = [top EXCEPT ![r] = MaxFirst(labels, scores)]
                /\ conf' = [conf EXCEPT ![r] = scores[MaxFirst(labels, scores)]]
  /\ pc' = [pc EXCEPT ![r] = "override"]
  /\ UNCHANGED <<model, ARCHETYPES, op, inp, txt, probs, found_all,
                 found_top, missing, ex, predicts, out>>

\* top = max(scores, key=scores.get); conf = scores[top]
\* max() of an empty dict raises ValueError, which leaves the handler
ClassifyTop(r) ==
  /\ pc[r] = "top"
  /\ LET labels == model.classes_
         scores == Scores(labels, probs[r])
     IN  IF labels = <<>>
           THEN /\ pc' = [pc EXCEPT ![r] = "done"]
                /\ out' = [out EXCEPT ![r] =
                             [kind |-> "error", error |-> "ValueError"]]
                /\ UNCHANGED <<top, conf>>
           ELSE /\ top' = [top EXCEPT ![r] = MaxFirst(labels, scores)]
                /\ conf' = [conf EXCEPT ![r] = scores[MaxFirst(labels, scores)]]
                /\ pc' = [pc EXCEPT ![r] = "override"]
                /\ out' = out
  /\ UNCHANGED <<model, ARCHETYPES, op, inp, txt, probs, found_all,
                 found_top, missing, ex, predicts>>

\* lex_label = max(found_all, key=lambda k: len(found_all[k]))
LexLabel(found, keys) ==
  MaxFirst(keys, [k \in DOMAIN found |-> Len(found[k])])

\* Overrides with margin and lowc both required
OverridesBoth(found, keys, t, c) ==
  LET lex_label == LexLabel(found, keys)
      lex_hits  == [k \in DOMAIN found |-> Len(found[k])]
      strong    == lex_hits[lex_label] >= StrongHits
      margin    == lex_hits[lex_label] >= Get(lex_hits, t, 0) + MarginHits
      lowc      == c < LowConfidence
  IN  /\ keys # <<>>
      /\ lex_label # ""
      /\ lex_label # t
      /\ strong /\ margin /\ lowc

\* Overrides without the floor of two hits
OverridesNoFloor(found, keys, t, c) ==
  LET lex_label == LexLabel(found, keys)
      lex_hits  == [k \in DOMAIN found |-> Len(found[k])]
      margin    == lex_hits[lex_label] >= Get(lex_hits, t, 0) + MarginHits
      lowc      == c < LowConfidence
  IN  /\ keys # <<>>
      /\ lex_label # ""
      /\ lex_label # t
      /\ lex_hits[lex_label] >= 1
      /\ (margin \/ lowc)

\* if lex_label and lex_label != top: strong / margin / lowc
Overrides(found, keys, t, c) ==
  LET lex_label == LexLabel(found, keys)
      lex_hits  == [k \in DOMAIN found |-> Len(found[k])]
      strong    == lex_hits[lex_label] >= StrongHits
      margin    == lex_hits[lex_label] >= Get(lex_hits, t, 0) + MarginHits
      lowc      == c < LowConfidence
  IN  /\ keys # <<>>
      /\ lex_label # ""
      /\ lex_label # t
      /\ strong /\ (margin \/ lowc)

\* Blend with base and weight exchanged: round(0.48 + 0.52 * score, 4)
BlendSwapped(scores, t) ==
  Round4(100 * (100000 - BlendBase) + (100 - BlendWeight) * Get(scores, t, 0), 100)

\* round(0.52 + 0.48 * scores.get(top, 0.0), 4)
Blend(scores, t) == Round4(100 * BlendBase + BlendWeight * Get(scores, t, 0), 100)

\* step 4 of classify: the lexicon-aware override
ClassifyOverride(r) ==
  /\ pc[r] = "override"
  /\ LET keys   == ARCHETYPES.keys
         scores == Scores(model.classes_, probs[r])
     IN  IF Overrides(found_all[r], keys, top[r], conf[r])
           THEN /\ top' = [top EXCEPT ![r] = LexLabel(found_all[r], keys)]
                /\ conf' = [conf EXCEPT ![r] =
                              Blend(scores, LexLabel(found_all[r], keys))]
           ELSE UNCHANGED <<top, conf>>
  /\ pc' = [pc EXCEPT ![r] = "keywords"]
  /\ UNCHANGED <<model, ARCHETYPES, op, inp, txt, probs, found_all,
                 found_top, missing, ex, predicts, out>>

\* all_kws = [k.lower() for k in ARCHETYPES.get(top, {}).get("keywords", [])]
AllKws(arch, t) ==
  LET kws == Get(Get(arch.at, t, EmptyDict), "keywords", <<>>)
  IN  [i \in 1..Len(kws) |-> Lower(Chars(kws[i]))]

\* Missing cut before it is filtered: [w for w in all_kws[:10] if ...]
MissingCutFirst(all_kws, found) ==
  LET NotFound(w) == w \notin Range(found)
  IN  SelectSeq(Prefix(all_kws, MissingLimit), NotFound)

\* missing = [w for w in all_kws if w not in found_top][:10]
Missing(all_kws, found) ==
  LET NotFound(w) == w \notin Range(found)
  IN  Prefix(SelectSeq(all_kws, NotFound), MissingLimit)

\* ClassifyKeywords with found_all[top] for found_all.get(top, []): a
\* KeyError for a label that is no archetype
ClassifyKeywordsIndexed(r) ==
  /\ pc[r] = "keywords"
  /\ IF top[r] \in DOMAIN found_all[r]
       THEN /\ found_top' = [found_top EXCEPT ![r] = found_all[r][top[r]]]
            /\ missing' = [missing EXCEPT ![r] =
                             Missing(AllKws(ARCHETYPES, top[r]),
                                     found_all[r][top[r]])]
            /\ pc' = [pc EXCEPT ![r] = "rewrite"]
            /\ out' = out
       ELSE /\ pc' = [pc EXCEPT ![r] = "done"]
            /\ out' = [out EXCEPT ![r] =
                         [kind |-> "error", error |-> "KeyError"]]
            /\ UNCHANGED <<found_top, missing>>
  /\ UNCHANGED <<model, ARCHETYPES, op, inp, txt, probs, found_all, top,
                 conf, ex, predicts>>

\* step 5 of classify: found / missing for the final label
ClassifyKeywords(r) ==
  /\ pc[r] = "keywords"
  /\ found_top' = [found_top EXCEPT ![r] = Get(found_all[r], top[r], <<>>)]
  /\ missing' = [missing EXCEPT ![r] =
                   Missing(AllKws(ARCHETYPES, top[r]),
                           Get(found_all[r], top[r], <<>>))]
  /\ pc' = [pc EXCEPT ![r] = "rewrite"]
  /\ UNCHANGED <<model, ARCHETYPES, op, inp, txt, probs, found_all, top,
                 conf, ex, predicts, out>>

\* ex = rewrite(raw_text, top, brand="Your brand")
ClassifyRewrite(r) ==
  /\ pc[r] = "rewrite"
  /\ \E e \in rewrite(inp[r].text, top[r], Chars("Your brand"), ARCHETYPES) :
       ex' = [ex EXCEPT ![r] = e]
  /\ pc' = [pc EXCEPT ![r] = "respond"]
  /\ UNCHANGED <<model, ARCHETYPES, op, inp, txt, probs, found_all, top,
                 conf, found_top, missing, predicts, out>>

\* steps 7 and 8 of classify: top3 and the returned dict
ClassifyRespond(r) ==
  /\ pc[r] = "respond"
  /\ out' = [out EXCEPT ![r] =
       [ kind               |-> "decision",
         label              |-> top[r],
         confidence         |-> Round4(conf[r], 1),
         scores             |-> Top3(model.classes_,
                                     Scores(model.classes_, probs[r])),
         patterns_found     |-> found_top[r],
         patterns_missing   |-> missing[r],
         patterns_found_all |-> found_all[r],
         example_rewrite    |-> ex[r] ]]
  /\ pc' = [pc EXCEPT ![r] = "done"]
  /\ UNCHANGED <<model, ARCHETYPES, op, inp, locals, predicts>>

\* ------------------------------------------------------------------------
\* The helpers called on their own
\* ------------------------------------------------------------------------
\* rewrite(text, target, brand)
RewriteCall(r, texts, targets, brands) ==
  /\ pc[r] = "idle"
  /\ \E t \in texts, g \in targets, b \in brands :
       /\ inp' = [inp EXCEPT ![r] = [text |-> t, target |-> g, brand |-> b]]
       /\ \E e \in rewrite(t, g, b, ARCHETYPES) :
            out' = [out EXCEPT ![r] = [kind |-> "text", value |-> e]]
  /\ op' = [op EXCEPT ![r] = "rewrite"]
  /\ pc' = [pc EXCEPT ![r] = "done"]
  /\ UNCHANGED <<model, ARCHETYPES, locals, predicts>>

\* analyze_patterns_all(text)
AnalyzeCall(r, texts) ==
  /\ pc[r] = "idle"
  /\ \E t \in texts :
       /\ inp' = [inp EXCEPT ![r].text = t]
       /\ out' = [out EXCEPT ![r] =
                    [kind |-> "matches",
                     value |-> analyze_patterns_all(t, ARCHETYPES)]]
  /\ op' = [op EXCEPT ![r] = "analyze"]
  /\ pc' = [pc EXCEPT ![r] = "done"]
  /\ UNCHANGED <<model, ARCHETYPES, locals, predicts>>

\* one statement of request r's call
Step(r, texts, dists, targets, brands, probes) ==
  \/ ClassifyEnter(r, texts)
  \/ ClassifyNormalize(r)
  \/ ClassifyPredict(r, dists)
  \/ ClassifyMatch(r)
  \/ ClassifyTop(r)
  \/ ClassifyOverride(r)
  \/ ClassifyKeywords(r)
  \/ ClassifyRewrite(r)
  \/ ClassifyRespond(r)
  \/ RewriteCall(r, texts, targets, brands)
  \/ AnalyzeCall(r, probes)

\* one request at a time
Next == Step(1, Texts, Distributions, Targets, Brands, Texts \cup KeywordTexts)

Spec == Init /\ [][Next]_vars

\* ------------------------------------------------------------------------
\* Requests in parallel: the worker threads interleave statement by
\* statement, over a smaller choice of inputs
\* ------------------------------------------------------------------------
ConcTexts ==
  {JoinFragments(<<"Well-being", "care">>), JoinFragments(<<"off-road">>)}

ConcDists == {<<35000, 25000, 40000, 0>>, <<60000, 15000, 25000, 0>>}

ConcLabels == <<"Caregiver", "Explorer", "Rebel">>

InitConc == Init /\ model = [loaded |-> TRUE, classes_ |-> ConcLabels]

NextConc ==
  \E r \in Req :
    Step(r, ConcTexts, ConcDists, {"Caregiver"}, {Chars("Acme")}, ConcTexts)

SpecConc == InitConc /\ [][NextConc]_vars

\* ------------------------------------------------------------------------
\* What the claims speak of, read off a finished /classify call
\* ------------------------------------------------------------------------
Decided(r) == pc[r] = "done" /\ op[r] = "classify" /\ out[r].kind = "decision"

LabelIndex(l) == CHOOSE i \in 1..Len(model.classes_) : model.classes_[i] = l

\* the classifier's probability of label l in request r
ScoreOf(r, l) == probs[r][LabelIndex(l)]

\* the classifier's argmax: no label scores higher, none before it as high
ClassifierTop(r) ==
  CHOOSE l \in Range(model.classes_) :
    \A m \in Range(model.classes_) :
      /\ ScoreOf(r, m) <= ScoreOf(r, l)
      /\ ScoreOf(r, m) = ScoreOf(r, l) => LabelIndex(l) <= LabelIndex(m)

Registration == <<"Rebel", "Caregiver", "Explorer">>

\* matched keywords of archetype a in request r (none for another label)
MatchCount(r, a) ==
  IF a \in DOMAIN found_all[r] THEN Len(found_all[r][a]) ELSE 0

\* the archetype with the most matched keywords, the first registered of them
LexicalBest(r) ==
  Registration[CHOOSE i \in 1..3 :
    /\ \A j \in 1..3 :
         MatchCount(r, Registration[j]) <= MatchCount(r, Registration[i])
    /\ \A j \in 1..(i - 1) :
         MatchCount(r, Registration[j]) < MatchCount(r, Registration[i])]

\* the three conditions of the override, for the classifier's argmax top0
\* and the lexical best lexLabel
OverrideOf(r, top0, lexLabel) ==
  /\ MatchCount(r, lexLabel) >= 2
  /\ \/ MatchCount(r, lexLabel) >= MatchCount(r, top0) + 2
     \/ ScoreOf(r, top0) < 55000
  /\ lexLabel # top0

OverrideHolds(r) == OverrideOf(r, ClassifierTop(r), LexicalBest(r))

Abs(x) == IF x < 0 THEN 0 - x ELSE x

\* c (in 1/100000) is the exact value n/d (in 1/100000) rounded to four
\* decimals: a multiple of 1/10000 no further than half of 1/10000 away
IsRounded4(c, n, d) == c % 10 = 0 /\ 2 * Abs(d * c - n) <= 10 * d

\* C1: the final label is the lexical best iff the three override conditions
\* hold, then with confidence round(0.52 + 0.48 * score[lexLabel], 4);
\* otherwise it is the classifier's argmax with confidence round(score, 4).
\* The two scenarios of the specification come out as stated.
C1_OverrideRule ==
  \A r \in Req : Decided(r) =>
    \A top0 \in {ClassifierTop(r)}, lexLabel \in {LexicalBest(r)} :
        /\ (out[r].label = lexLabel /\ lexLabel # top0)
             <=> OverrideOf(r, top0, lexLabel)
        /\ OverrideOf(r, top0, lexLabel) /\ lexLabel \in Range(model.classes_) =>
             IsRounded4(out[r].confidence,
                        5200000 + 48 * ScoreOf(r, lexLabel), 100)
        /\ ~OverrideOf(r, top0, lexLabel) =>
             /\ out[r].label = top0
             /\ IsRounded4(out[r].confidence, ScoreOf(r, top0), 1)
        /\ ( /\ model.classes_ = <<"Caregiver", "Explorer", "Rebel">>
             /\ probs[r] = <<35000, 25000, 40000>>
             /\ MatchCount(r, "Caregiver") = 3
             /\ MatchCount(r, "Rebel") = 0 /\ MatchCount(r, "Explorer") = 0 )
           => out[r].label = "Caregiver" /\ out[r].confidence = 68800
        /\ ( /\ model.classes_ = <<"Caregiver", "Explorer", "Rebel">>
             /\ probs[r] = <<20000, 10000, 70000>>
             /\ MatchCount(r, "Caregiver") = 1
             /\ MatchCount(r, "Rebel") = 0 /\ MatchCount(r, "Explorer") = 0 )
           => out[r].label = "Rebel" /\ out[r].confidence = 70000

\* the first scenario of the specification: three Caregiver hits override
\* Rebel at 0.40 and report 0.6880
C1_Witness ==
  \E r \in Req :
    /\ Decided(r)
    /\ probs[r] = <<35000, 25000, 40000>>
    /\ MatchCount(r, "Caregiver") = 3
    /\ MatchCount(r, "Rebel") = 0 /\ MatchCount(r, "Explorer") = 0
    /\ ClassifierTop(r) = "Rebel"
    /\ out[r].label = "Caregiver" /\ out[r].confidence = 68800

\* C2: with fewer than two matched keywords for the best lexical archetype
\* the final label is the classifier's argmax, whatever its confidence.
C2_OverrideFloor ==
  \A r \in Req :
    (Decided(r) /\ \A a \in Range(Registration) : MatchCount(r, a) < 2)
      => out[r].label = ClassifierTop(r)

\* one hit for another archetype and a classifier below 0.55: no override
C2_Witness ==
  \E r \in Req :
    /\ Decided(r)
    /\ MatchCount(r, LexicalBest(r)) = 1
    /\ LexicalBest(r) # ClassifierTop(r)
    /\ ScoreOf(r, ClassifierTop(r)) < 55000
    /\ out[r].label = ClassifierTop(r)

\* C3: an overridden decision reports at least 0.52, and every decision
\* reports a confidence in [0, 1].
C3_BlendFloorAndRange ==
  \A r \in Req : Decided(r) =>
    /\ OverrideHolds(r) => out[r].confidence >= 52000
    /\ out[r].confidence >= 0 /\ out[r].confidence <= 100000

\* an override onto a label the classifier gives 0.0 reports exactly 0.52
C3_Witness ==
  \E r \in Req :
    /\ Decided(r) /\ OverrideHolds(r)
    /\ LexicalBest(r) \in Range(model.classes_)
    /\ ScoreOf(r, LexicalBest(r)) = 0
    /\ out[r].label = LexicalBest(r)
    /\ out[r].confidence = 52000

\* a finished /classify call, however it ended
Answered(r) == pc[r] = "done" /\ op[r] = "classify"

\* the classifier knows a label that is no archetype of the lexicon
UnknownLabel == \E l \in Range(model.classes_) : l \notin Range(Registration)

C5_ClassifierUnavailable ==
  \A r \in Req :
    /\ (Answered(r) /\ (~model.loaded \/ model.classes_ = <<>>)) =>
         /\ out[r].kind = "error"
         /\ DOMAIN out[r] = {"kind", "error"}
         /\ predicts[r] <= 1
    /\ (op[r] = "classify" /\ (~model.loaded \/ model.classes_ = <<>>)) =>
         /\ pc[r] \notin {"override", "keywords", "rewrite", "respond"}
         /\ top[r] = "" /\ predicts[r] <= 1

\* a loaded model with no classes: the call ends in an error after one
\* predict_proba, although the text matched keywords
C5_Witness ==
  \E r \in Req :
    /\ Answered(r) /\ model.loaded /\ model.classes_ = <<>>
    /\ out[r].kind = "error" /\ predicts[r] = 1
    /\ \E a \in Range(Registration) : MatchCount(r, a) >= 2

RECURSIVE Ascending(_)
\* the members of a set of indices, smallest first
Ascending(U) ==
  IF U = {} THEN <<>>
  ELSE LET m == CHOOSE i \in U : \A k \in U : i <= k
       IN  <<m>> \o Ascending(U \ {m})

\* the lower-cased keywords of each archetype
LowerKeywords ==
  [a \in Range(Registration) |->
     [i \in 1..Len(Lexicon.at[a].keywords) |->
        Lower(Chars(Lexicon.at[a].keywords[i]))]]

\* the lower-cased keywords of a label, none for a label that is no archetype
KeywordsOf(label) ==
  IF label \in Range(Registration) THEN LowerKeywords[label] ELSE <<>>

\* C6: missingKeywords has at most 10 entries, shares none with
\* matchedKeywords, and is the first 10, in declaration order, of the final
\* label's lower-cased keywords that are not matched; matchedKeywords is the
\* matcher's list for the final label.
C6_MissingKeywords ==
  \A r \in Req : Decided(r) =>
    LET kws   == KeywordsOf(out[r].label)
        found == out[r].patterns_found
        miss  == out[r].patterns_missing
        seen  == Range(found)
        U     == Ascending({i \in 1..Len(kws) : kws[i] \notin seen})
        n     == IF Len(U) < 10 THEN Len(U) ELSE 10
    IN  /\ Len(miss) <= 10
        /\ Range(miss) \cap Range(found) = {}
        /\ Len(miss) = n
        /\ miss = [j \in 1..n |-> kws[U[j]]]
        /\ found = IF out[r].label \in Range(Registration)
                     THEN out[r].patterns_found_all[out[r].label] ELSE <<>>

\* an overridden decision whose matches lie among the first ten keywords:
\* the list is filled up to ten from the eleventh keyword on
C6_Witness ==
  \E r \in Req :
    /\ Decided(r) /\ OverrideHolds(r)
    /\ out[r].label = "Caregiver"
    /\ Chars("care") \in Range(out[r].patterns_found)
    /\ Len(out[r].patterns_missing) = 10
    /\ out[r].patterns_missing[1] = Chars("caring")
    /\ out[r].patterns_missing[10] = Chars("compassion")

\* C7: top3 holds min(3, number of labels) entries, the highest classifier
\* scores in non-increasing order, equal classifier scores in label order,
\* each value rounded to four decimals.
C7_Top3 ==
  \A r \in Req : Decided(r) =>
    LET t      == out[r].scores
        n      == Len(model.classes_)
        Before(a, b) ==
          \/ ScoreOf(r, a) > ScoreOf(r, b)
          \/ ScoreOf(r, a) = ScoreOf(r, b) /\ LabelIndex(a) < LabelIndex(b)
        listed == {t[i][1] : i \in 1..Len(t)}
    IN  /\ Len(t) = IF n < 3 THEN n ELSE 3
        /\ listed \subseteq Range(model.classes_)
        /\ Cardinality(listed) = Len(t)
        /\ \A i \in 1..Len(t) : IsRounded4(t[i][2], ScoreOf(r, t[i][1]), 1)
        /\ \A i \in 1..Len(t), j \in 1..Len(t) :
             i < j => Before(t[i][1], t[j][1]) /\ t[i][2] >= t[j][2]
        /\ \A l \in Range(model.classes_) \ listed :
             \A i \in 1..Len(t) : Before(t[i][1], l)

\* four labels, three of them tied: the tie is cut in label order
C7_Witness ==
  \E r \in Req :
    /\ Decided(r)
    /\ probs[r] = <<10000, 10000, 10000, 70000>>
    /\ out[r].scores = << <<"Sage", 70000>>, <<"Caregiver", 10000>>,
                          <<"Explorer", 10000>> >>

\* the whitespace tokens of every string constant's normal form
KeywordTokens == [s \in DOMAIN CharsOf |-> Split(NormOfConstant[s])]

\* the keyword's normal form is a window of 1, 2 or 3 tokens of the text's
TokenWindow(toks, kw) ==
  LET k == KeywordTokens[kw]
  IN  /\ Len(k) \in 1..3
      /\ \E i \in 1..(Len(toks) - Len(k) + 1) :
           SubSeq(toks, i, i + Len(k) - 1) = k

\* the matcher's answer for a text is, per archetype, exactly the keywords
\* with a token window, lower-cased, in declaration order
MatcherExact(text, result) ==
  /\ DOMAIN result = Range(Registration)
  /\ \A toks \in {Split(norm_for_match(text))} :
       \A a \in Range(Registration) :
         LET kws == Lexicon.at[a].keywords
             U   == Ascending({i \in 1..Len(kws) : TokenWindow(toks, kws[i])})
         IN  result[a] = [j \in 1..Len(U) |-> LowerKeywords[a][U[j]]]

Analyzed(r) == pc[r] = "done" /\ op[r] = "analyze"

\* C8: the matcher reports a keyword iff its normal form is a window of 1, 2
\* or 3 whitespace tokens of the normalized text, in declaration order;
\* "careful development" does not match "care", "Well-being" and
\* "well being" match "well-being", and the empty text matches nothing.
C8_MatcherBoundary ==
  \A r \in Req :
    /\ Analyzed(r) =>
         /\ MatcherExact(inp[r].text, out[r].value)
         /\ inp[r].text = Chars("careful development") =>
              Chars("care") \notin Range(out[r].value["Caregiver"])
         /\ inp[r].text \in {Chars("Well-being"), Chars("well being")} =>
              Chars("well-being") \in Range(out[r].value["Caregiver"])
         /\ inp[r].text = <<>> =>
              \A a \in Range(Registration) : out[r].value[a] = <<>>
    /\ (op[r] = "classify" /\ pc[r] = "top") =>
         MatcherExact(txt[r], found_all[r])

\* a token that only starts with a keyword beside a hyphenated keyword
C8_Witness ==
  \E r \in Req :
    /\ Analyzed(r)
    /\ inp[r].text = JoinFragments(<<"careful development", "Well-being">>)
    /\ out[r].value["Caregiver"] = <<Chars("well being"), Chars("well-being")>>
    /\ out[r].value["Rebel"] = <<>> /\ out[r].value["Explorer"] = <<>>

\* /classify run on its own: what it returns for a text and a row of
\* probabilities, the example rewrite left out
DecisionAlone ==
  [t \in ConcTexts, d \in ConcDists |->
     LET p        == Prefix(d, Len(ConcLabels))
         scores   == Scores(ConcLabels, p)
         found    == analyze_patterns_all(normalize_text(t), Lexicon)
         top0     == MaxFirst(ConcLabels, scores)
         fires    == Overrides(found, Lexicon.keys, top0, scores[top0])
         label    == IF fires THEN LexLabel(found, Lexicon.keys) ELSE top0
         c        == IF fires THEN Blend(scores, label) ELSE scores[top0]
     IN  [ label              |-> label,
           confidence         |-> Round4(c, 1),
           scores             |-> Top3(ConcLabels, scores),
           patterns_found     |-> Get(found, label, <<>>),
           patterns_missing   |-> Missing(AllKws(Lexicon, label),
                                          Get(found, label, <<>>)),
           patterns_found_all |-> found ]]

\* the row of ConcDists a request's probabilities were cut from
RowOf(p) == CHOOSE d \in ConcDists : Prefix(d, Len(ConcLabels)) = p

\* C9: under every interleaving with other /classify and rewrite calls a
\* /classify call returns the label, confidence, matched and missing
\* keywords and top3 it returns when it runs alone, and the lexicon stays
\* as it was loaded.
C9_Interference ==
  /\ ARCHETYPES = Lexicon
  /\ \A r \in Req : Decided(r) =>
       LET alone == DecisionAlone[inp[r].text, RowOf(probs[r])]
       IN  /\ out[r].label = alone.label
           /\ out[r].confidence = alone.confidence
           /\ out[r].patterns_found = alone.patterns_found
           /\ out[r].patterns_missing = alone.patterns_missing
           /\ out[r].scores = alone.scores
           /\ out[r].patterns_found_all = alone.patterns_found_all

\* a call has answered Caregiver while another, on another text and other
\* probabilities, stands between its matcher and its answer
C9_Witness ==
  \E r \in Req, q \in Req :
    /\ r # q
    /\ Decided(r) /\ out[r].label = "Caregiver"
    /\ op[q] = "classify" /\ pc[q] \in {"top", "override", "keywords"}
    /\ inp[q].text # inp[r].text /\ probs[q] # probs[r]
    /\ found_all[q] # found_all[r]

SlotList ==
  [verb |-> "verbs", verb2 |-> "verbs2", verb3 |-> "verbs3",
   benefit |-> "benefits"]

SlotDefault ==
  [verb |-> "support", verb2 |-> "go", verb3 |-> "move",
   benefit |-> "what matters"]

\* the values a slot of archetype a may take: the caller's brand, a value of
\* the declared list, or the default of a slot whose list is absent
SlotValues(a, slot, brand) ==
  IF slot = "brand" THEN {brand}
  ELSE IF SlotList[slot] \in DOMAIN Lexicon.at[a]
         THEN {Chars(v) : v \in Range(Lexicon.at[a][SlotList[slot]])}
         ELSE {Chars(SlotDefault[slot])}

RECURSIVE Rendered(_, _)
\* a template with each slot replaced by its value under assignment f
Rendered(t, f) ==
  IF t = <<>> THEN <<>>
  ELSE (IF "slot" \in DOMAIN t[1] THEN f[t[1].slot] ELSE Chars(t[1].lit))
         \o Rendered(Tail(t), f)

\* every valid rendering of archetype a's templates for a brand
ValidRenderings ==
  [a \in Range(Registration), b \in Brands \cup {Chars("Your brand")} |->
     {Rendered(Lexicon.at[a].templates[i], f) :
        i \in 1..Len(Lexicon.at[a].templates),
        f \in [brand : SlotValues(a, "brand", b),
               verb : SlotValues(a, "verb", b),
               verb2 : SlotValues(a, "verb2", b),
               verb3 : SlotValues(a, "verb3", b),
               benefit : SlotValues(a, "benefit", b)]}]

Rewritten(r) == pc[r] = "done" /\ op[r] = "rewrite"

\* C10: a rewrite toward a known archetype returns one of its templates with
\* the brand slot replaced by the caller's brand and every other slot by a
\* value of that archetype's list for the slot (or the slot's default where
\* the list is absent); the same holds of the example of a decision.
C10_RewriteValidity ==
  \A r \in Req :
    /\ (Rewritten(r) /\ inp[r].target \in Range(Registration)) =>
         out[r].value \in ValidRenderings[inp[r].target, inp[r].brand]
    /\ (Decided(r) /\ out[r].label \in Range(Registration)) =>
         out[r].example_rewrite
           \in ValidRenderings[out[r].label, Chars("Your brand")]

\* a brand that looks like a slot is put in as it is
C10_Witness ==
  \E r \in Req :
    /\ Rewritten(r) /\ inp[r].target = "Rebel" /\ inp[r].brand = Chars("{verb}")
    /\ out[r].value =
         Chars("No permission needed. ") \o Chars("{verb}") \o Chars(" ")
           \o Chars("obliterates") \o Chars(" limits.")

\* the display-normalized text, cut to 120 characters and marked when longer
FallbackOf(text) ==
  LET t == normalize_text(text)
  IN  IF Len(t) > 120 THEN SubSeq(t, 1, 120) \o <<".", ".", ".">> ELSE t

\* C11: a rewrite toward a target that is no archetype does not fail; it
\* returns the display-normalized input, cut to its first 120 characters
\* and followed by "..." iff the normalized text is longer than 120; the
\* same holds of the example of a decision whose label is no archetype.
C11_UnknownTargetFallback ==
  \A r \in Req :
    /\ (Rewritten(r) /\ inp[r].target \notin Range(Registration)) =>
         /\ out[r].kind = "text"
         /\ out[r].value = FallbackOf(inp[r].text)
    /\ (Decided(r) /\ out[r].label \notin Range(Registration)) =>
         out[r].example_rewrite = FallbackOf(inp[r].text)

\* a text of 121 characters rewritten toward Sage comes back as its first
\* 120 characters, the exclamation mark blanked, and the three dots
C11_Witness ==
  \E r \in Req :
    /\ Rewritten(r) /\ inp[r].target = "Sage"
    /\ Len(inp[r].text) = 121 /\ inp[r].text[3] = "!"
    /\ Len(out[r].value) = 123
    /\ out[r].value[3] = " " /\ out[r].value[120] = "x"
    /\ SubSeq(out[r].value, 121, 123) = <<".", ".", ".">>

\* the token sequences of the keywords of every archetype
AllKeywordTokens ==
  UNION {{KeywordTokens[Lexicon.at[a].keywords[i]] :
            i \in 1..Len(Lexicon.at[a].keywords)} : a \in Range(Registration)}

\* the windows <<start, length>> of a token list that spell a keyword
KeywordWindows(toks) ==
  {w \in (1..Len(toks)) \X (1..3) :
     /\ w[1] + w[2] - 1 <= Len(toks)
     /\ SubSeq(toks, w[1], w[1] + w[2] - 1) \in AllKeywordTokens}

\* the text holds one occurrence of a keyword phrase: some window spells a
\* keyword and every window that spells a keyword lies inside it
SinglePhrase(text) ==
  \A wins \in {KeywordWindows(Split(norm_for_match(normalize_text(text))))} :
    /\ wins # {}
    /\ \E w \in wins : \A v \in wins :
         v[1] >= w[1] /\ v[1] + v[2] <= w[1] + w[2]

\* C12: for a text with only one occurrence of a keyword phrase the final
\* label of /classify is the classifier's argmax, whatever its confidence.
C12_SinglePhraseNoOverride ==
  \A r \in Req : (Decided(r) /\ SinglePhrase(inp[r].text)) =>
    out[r].label = ClassifierTop(r)

\* the one phrase "Well-being" counts as two Caregiver keywords and takes
\* the label from the classifier's Rebel
C12_Witness ==
  \E r \in Req :
    /\ Decided(r) /\ inp[r].text = Chars("Well-being")
    /\ SinglePhrase(inp[r].text)
    /\ out[r].patterns_found_all["Caregiver"]
         = <<Chars("well being"), Chars("well-being")>>
    /\ ClassifierTop(r) = "Rebel" /\ ScoreOf(r, "Rebel") = 40000
    /\ out[r].label = "Caregiver"

\* C13: whenever the override fires, the label switched to has strictly
\* more matched keywords than the classifier's argmax.
C13_OverrideStrictlyStronger ==
  \A r \in Req : (Decided(r) /\ out[r].label # ClassifierTop(r)) =>
    MatchCount(r, out[r].label) > MatchCount(r, ClassifierTop(r))

\* Rebel and Caregiver tie on two keywords each; the classifier's Caregiver
\* at 0.40 is replaced by Rebel, the first registered of the two
C13_Witness ==
  \E r \in Req :
    /\ Decided(r)
    /\ inp[r].text = JoinFragments(<<"Well-being", "Break rules!">>)
    /\ ClassifierTop(r) = "Caregiver" /\ ScoreOf(r, "Caregiver") = 40000
    /\ MatchCount(r, "Rebel") = 2 /\ MatchCount(r, "Caregiver") = 2
    /\ out[r].label = "Rebel"

\* C14: the classifier's argmax is the first, in the classifier's label
\* order, of the labels with the highest probability; a label the override
\* switches to is the first, in registration order, of the archetypes with
\* the highest match count; with every match count zero the answer is the
\* classifier's argmax at its own rounded probability.
C14_FirstSeenTieBreaks ==
  \A r \in Req :
    /\ (op[r] = "classify" /\ pc[r] = "override") => top[r] = ClassifierTop(r)
    /\ (Decided(r) /\ out[r].label # ClassifierTop(r)) =>
         out[r].label = LexicalBest(r)
    /\ (Decided(r) /\ \A a \in Range(Registration) : MatchCount(r, a) = 0) =>
         /\ out[r].label = ClassifierTop(r)
         /\ IsRounded4(out[r].confidence, ScoreOf(r, ClassifierTop(r)), 1)

\* Caregiver and Explorer tie at 0.40 and Caregiver, listed first, is the
\* argmax; Rebel and Explorer tie on two keywords and Rebel, registered
\* first, takes the label
C14_Witness ==
  \E r \in Req :
    /\ Decided(r) /\ model.classes_ = <<"Caregiver", "Explorer", "Rebel">>
    /\ ScoreOf(r, "Caregiver") = 40000 /\ ScoreOf(r, "Explorer") = 40000
    /\ ClassifierTop(r) = "Caregiver"
    /\ MatchCount(r, "Rebel") = 2 /\ MatchCount(r, "Explorer") = 2
    /\ MatchCount(r, "Caregiver") = 0
    /\ out[r].label = "Rebel"

\* C15: the matcher run on a text that is exactly a declared keyword of an
\* archetype reports that keyword for that archetype.
C15_EveryKeywordMatchable ==
  \A r \in Req : Analyzed(r) =>
    \A a \in Range(Registration) :
      \A i \in 1..Len(Lexicon.at[a].keywords) :
        inp[r].text = Chars(Lexicon.at[a].keywords[i]) =>
          LowerKeywords[a][i] \in Range(out[r].value[a])

\* the Explorer keyword "find your own way" has four tokens: the matcher
\* run on exactly that text reports nothing for any archetype
C15_Witness ==
  \E r \in Req :
    /\ Analyzed(r) /\ inp[r].text = Chars("find your own way")
    /\ Len(KeywordTokens["find your own way"]) = 4
    /\ \A a \in Range(Registration) : out[r].value[a] = <<>>

====
